---- MODULE Spec2Model ----
(***************************************************************************)
(* Model of components/tidb_query_datatype/src/codec/data_type/mod.rs:     *)
(* the truthiness conversion (AsMySQLBool) and the type-dispatch traits    *)
(* (Evaluable, EvaluableRet, EvaluableRef) over the seven eval types.      *)
(*                                                                         *)
(* The module is a library of pure functions.  The state machine is a      *)
(* caller that owns one EvalContext and calls one function per step; the   *)
(* state records the call (op), its input (arg), what it returned (res),   *)
(* the functions it entered (calls) and the context after it (ctx).        *)
(***************************************************************************)
EXTENDS Integers, Sequences, FiniteSets, TLC

VARIABLES ctx, op, arg, res, calls

vars == <<ctx, op, arg, res, calls>>

(***************************************************************************)
(* Bounds of the model.                                                    *)
(***************************************************************************)
\* Byte strings over Alphabet are enumerated up to this length.
MaxLen == 3
\* Integers are drawn from -MaxInt .. MaxInt (the code only compares with 0).
MaxInt == 2
\* The context's warning list is followed up to this length.
MaxWarnings == 2
\* Chunked vectors are enumerated up to this many rows.
MaxRows == 2

(***************************************************************************)
(* Option<T> and Result<T>.                                                *)
(***************************************************************************)
None == [some |-> FALSE]

Some(v) == [some |-> TRUE, v |-> v]

Option(S) == {None} \cup {Some(v) : v \in S}

Ok(b) == [kind |-> "Ok", b |-> b, e |-> "none"]

Err(e) == [kind |-> "Err", b |-> FALSE, e |-> e]

\* unimplemented!(): the thread panics, nothing is returned.
Panic == [kind |-> "panic", msg |-> "not implemented"]

Ret(v) == [kind |-> "ret", v |-> v]

(***************************************************************************)
(* The seven eval types (match_template_evaluable's type list).            *)
(***************************************************************************)
EvalTypes == {"Int", "Real", "Decimal", "Bytes", "DateTime", "Duration", "Json"}

(***************************************************************************)
(* Payloads.                                                               *)
(***************************************************************************)
\* Int = i64.
IntVals == (-MaxInt) .. MaxInt

\* f64 without NaN (Real = NotNan<f64>): a sign and a magnitude class.
\* "zero" is +0.0 / -0.0, "sub" the tiny values down to MIN_POSITIVE, "max"
\* is f64::MAX / f64::MIN, "inf" the infinities.
F64Classes == {"zero", "sub", "norm", "max", "inf"}

RealVals == [neg : BOOLEAN, cls : F64Classes]

F64(neg, cls) == [neg |-> neg, cls |-> cls]

\* x != 0f64 (IEEE comparison: -0.0 equals 0.0).
F64Ne0(x) == x.cls # "zero"

\* Bytes = Vec<u8>: a sequence of bytes, written as one-character strings.
Alphabet == {" ", "-", "0", "1", ".", "x"}

RECURSIVE SeqsUpTo(_, _)
SeqsUpTo(S, n) ==
  IF n = 0 THEN {<<>>}
  ELSE LET shorter == SeqsUpTo(S, n - 1)
       IN  shorter \cup {Append(s, c) : s \in {t \in shorter : Len(t) = n - 1}, c \in S}

\* The inputs of test_bytes_as_bool.
TestBytes ==
  { <<>>,
    <<" ", "2", "3">>,
    <<"-", "1">>,
    <<"1", ".", "1", "1">>,
    <<"1", ".", "1", "1", ".", "0", "0">>,
    <<"x", "x">>,
    <<"0", "x", "0", "0">>,
    <<"1", "1", ".", "x", "x">>,
    <<"x", "x", ".", "1", "1">>,
    <<".", "0", "0", "0", "0", "0", "0", "0", "1">>,
    <<"i", "n", "f">>,
    <<"-", "i", "n", "f">> }

BytesVals == SeqsUpTo(Alphabet, MaxLen) \cup TestBytes

\* BytesRef<'a> = &'a [u8]: a view of len bytes at offset off of a buffer.
Slice(buf, off, len) == [buf |-> buf, off |-> off, len |-> len]

SliceContent(s) == SubSeq(s.buf, s.off + 1, s.off + s.len)

\* Vec<u8>::as_slice: the view of the whole vector.
Bytes_as_slice(v) == Slice(v, 0, Len(v))

\* <[u8]>::is_empty
Slice_is_empty(s) == s.len = 0

(***************************************************************************)
(* EvalContext: the conversion policy and the warnings collected so far.   *)
(***************************************************************************)
Contexts == [overflow_as_warning : BOOLEAN, warnings : 0 .. MaxWarnings]

\* EvalContext::default(): errors are returned, no warning yet.
DefaultContext == [overflow_as_warning |-> FALSE, warnings |-> 0]

(***************************************************************************)
(* ConvertTo::<f64>::convert for &[u8] (codec::convert).                   *)
(* The input is trimmed, then must be [sign] digits [. digits] with at     *)
(* least one digit, or [sign] inf.  Anything else is a parse failure.      *)
(* An infinite value overflows: an error, or under the lenient policy a    *)
(* warning in the context and the saturated value.                         *)
(***************************************************************************)
Digits == {"0", "1", "2", "3", "4", "5", "6", "7", "8", "9"}

RECURSIVE TrimLeft(_)
TrimLeft(s) == IF s # <<>> /\ Head(s) = " " THEN TrimLeft(Tail(s)) ELSE s

RECURSIVE TrimRight(_)
TrimRight(s) ==
  IF s # <<>> /\ s[Len(s)] = " " THEN TrimRight(SubSeq(s, 1, Len(s) - 1)) ELSE s

Trim(s) == TrimRight(TrimLeft(s))

StripSign(s) == IF s # <<>> /\ Head(s) \in {"-", "+"} THEN Tail(s) ELSE s

IsNegative(s) == s # <<>> /\ Head(s) = "-"

AllDigits(s) == \A i \in 1 .. Len(s) : s[i] \in Digits

\* [digits] [. digits] with at least one digit.
IsDecimalLiteral(s) ==
  \E k \in 0 .. Len(s) :
    LET int == SubSeq(s, 1, k)
        rest == SubSeq(s, k + 1, Len(s))
        frac == IF rest = <<>> THEN <<>> ELSE Tail(rest)
    IN  /\ AllDigits(int)
        /\ rest = <<>> \/ Head(rest) = "."
        /\ AllDigits(frac)
        /\ Len(int) + Len(frac) > 0

IsInfLiteral(s) == s = <<"i", "n", "f">>

AllZeroDigits(s) == \A i \in 1 .. Len(s) : s[i] \in {"0", "."}

\* The value a well-formed literal denotes.
LiteralValue(t) ==
  LET body == StripSign(t)
  IN  F64(IsNegative(t),
          IF IsInfLiteral(body) THEN "inf"
          ELSE IF AllZeroDigits(body) THEN "zero"
          ELSE "norm")

ConvertOutcome(r, c) == [r |-> r, ctx |-> c]

ConvertBytesToF64(b, c) ==
  LET t == Trim(b)
      body == StripSign(t)
  IN  IF ~(IsDecimalLiteral(body) \/ IsInfLiteral(body))
      THEN ConvertOutcome([kind |-> "Err", e |-> "truncated"], c)
      ELSE IF LiteralValue(t).cls = "inf"
      THEN IF c.overflow_as_warning
           THEN ConvertOutcome([kind |-> "Ok", f |-> F64(IsNegative(t), "max")],
                               [c EXCEPT !.warnings = @ + 1])
           ELSE ConvertOutcome([kind |-> "Err", e |-> "overflow"], c)
      ELSE ConvertOutcome([kind |-> "Ok", f |-> LiteralValue(t)], c)

(***************************************************************************)
(* AsMySQLBool.  Each implementation returns the Result, the context as    *)
(* the call leaves it, and the functions entered, in order.                *)
(***************************************************************************)
Outcome(r, c, t) == [res |-> r, ctx |-> c, calls |-> t]

\* impl AsMySQLBool for Int
Int_as_mysql_bool(self, c) ==
  Outcome(Ok(self # 0), c, <<"Int::as_mysql_bool">>)

\* Mutant: `> 0f64` for `!= 0f64`.
Real_as_mysql_bool_Positive(self, c) ==
  Outcome(Ok(F64Ne0(self) /\ ~self.neg), c, <<"Real::as_mysql_bool">>)

\* impl AsMySQLBool for Real
Real_as_mysql_bool(self, c) ==
  Outcome(Ok(F64Ne0(self)), c, <<"Real::as_mysql_bool">>)

\* Mutant: the conversion's error is taken for 0.0 (unwrap_or) instead of `?`.
BytesRef_as_mysql_bool_ErrAsFalse(self, c) ==
  IF Slice_is_empty(self)
  THEN Outcome(Ok(FALSE), c, <<"BytesRef::as_mysql_bool">>)
  ELSE LET cv == ConvertBytesToF64(SliceContent(self), c)
           t == <<"BytesRef::as_mysql_bool", "ConvertTo::<f64>::convert">>
       IN  IF cv.r.kind = "Err"
           THEN Outcome(Ok(FALSE), cv.ctx, t)
           ELSE Outcome(Ok(F64Ne0(cv.r.f)), cv.ctx, t)

\* Mutant: no is_empty() test before the conversion.
BytesRef_as_mysql_bool_NoEmptyCheck(self, c) ==
  LET cv == ConvertBytesToF64(SliceContent(self), c)
      t == <<"BytesRef::as_mysql_bool", "ConvertTo::<f64>::convert">>
  IN  IF cv.r.kind = "Err"
      THEN Outcome(Err(cv.r.e), cv.ctx, t)
      ELSE Outcome(Ok(F64Ne0(cv.r.f)), cv.ctx, t)

\* impl AsMySQLBool for BytesRef:
\*   Ok(!self.is_empty() && ConvertTo::<f64>::convert(self, context)? != 0f64)
BytesRef_as_mysql_bool(self, c) ==
  IF Slice_is_empty(self)
  THEN Outcome(Ok(FALSE), c, <<"BytesRef::as_mysql_bool">>)
  ELSE LET cv == ConvertBytesToF64(SliceContent(self), c)
           t == <<"BytesRef::as_mysql_bool", "ConvertTo::<f64>::convert">>
       IN  IF cv.r.kind = "Err"
           THEN Outcome(Err(cv.r.e), cv.ctx, t)
           ELSE Outcome(Ok(F64Ne0(cv.r.f)), cv.ctx, t)

\* impl AsMySQLBool for Bytes: self.as_slice().as_mysql_bool(context)
Bytes_as_mysql_bool(self, c) ==
  LET o == BytesRef_as_mysql_bool(Bytes_as_slice(self), c)
  IN  Outcome(o.res, o.ctx, <<"Bytes::as_mysql_bool">> \o o.calls)

\* Mutant: a non-empty payload is true.
JsonRef_as_mysql_bool_NonEmpty(self, c) ==
  Outcome(Ok(self.value.len > 0), c, <<"JsonRef::as_mysql_bool">>)

\* Mutant: the placeholder answer is reported as a warning in the context.
JsonRef_as_mysql_bool_Warns(self, c) ==
  Outcome(Ok(FALSE), [c EXCEPT !.warnings = @ + 1], <<"JsonRef::as_mysql_bool">>)

\* impl AsMySQLBool for JsonRef
JsonRef_as_mysql_bool(self, c) ==
  Outcome(Ok(FALSE), c, <<"JsonRef::as_mysql_bool">>)

\* impl<T: AsMySQLBool> AsMySQLBool for &T: (&**self).as_mysql_bool(context),
\* for the owned types T that implement AsMySQLBool here.
AsMySQLBoolOwned == {"Int", "Real", "Bytes"}

Owned_as_mysql_bool(T, self, c) ==
  CASE T = "Int" -> Int_as_mysql_bool(self, c)
    [] T = "Real" -> Real_as_mysql_bool(self, c)
    [] T = "Bytes" -> Bytes_as_mysql_bool(self, c)

Ref_as_mysql_bool(T, self, c) ==
  LET o == Owned_as_mysql_bool(T, self.val, c)
  IN  Outcome(o.res, o.ctx, <<"&T::as_mysql_bool">> \o o.calls)

\* impl<T: AsMySQLBool> AsMySQLBool for Option<&T>
OptionRef_as_mysql_bool(T, self, c) ==
  IF ~self.some
  THEN Outcome(Ok(FALSE), c, <<"Option<&T>::as_mysql_bool">>)
  ELSE LET o == Ref_as_mysql_bool(T, self.v, c)
       IN  Outcome(o.res, o.ctx, <<"Option<&T>::as_mysql_bool">> \o o.calls)

\* Mutant: None is handed on as the empty slice (unwrap_or_default).
OptionBytesRef_as_mysql_bool_NoneAsEmpty(self, c) ==
  LET o == BytesRef_as_mysql_bool(IF self.some THEN self.v ELSE Slice(<<>>, 0, 0), c)
  IN  Outcome(o.res, o.ctx, <<"Option<BytesRef>::as_mysql_bool">> \o o.calls)

\* impl AsMySQLBool for Option<BytesRef>
OptionBytesRef_as_mysql_bool(self, c) ==
  IF ~self.some
  THEN Outcome(Ok(FALSE), c, <<"Option<BytesRef>::as_mysql_bool">>)
  ELSE LET o == BytesRef_as_mysql_bool(self.v, c)
       IN  Outcome(o.res, o.ctx, <<"Option<BytesRef>::as_mysql_bool">> \o o.calls)

\* impl AsMySQLBool for Option<JsonRef>
OptionJsonRef_as_mysql_bool(self, c) ==
  IF ~self.some
  THEN Outcome(Ok(FALSE), c, <<"Option<JsonRef>::as_mysql_bool">>)
  ELSE LET o == JsonRef_as_mysql_bool(self.v, c)
       IN  Outcome(o.res, o.ctx, <<"Option<JsonRef>::as_mysql_bool">> \o o.calls)

(***************************************************************************)
(* Values the caller passes.                                               *)
(***************************************************************************)
\* &T: a reference to a T stored at some place.
RefTo(place, v) == [at |-> place, val |-> v]

Places == {"scalar", "chunk"}

RefsTo(S) == {RefTo(p, v) : p \in Places, v \in S}

\* Decimal, DateTime and Duration are opaque here (codec::mysql).
DecimalVals == {"0.0", "1.5"}

DateTimeVals == {"0000-00-00", "2019-01-01"}

DurationVals == {"00:00:00", "12:30:00"}

\* Views into small buffers, and the whole-vector views of the test inputs.
SliceAlphabet == {"0", "1", "x"}

ViewsOf(bufs) ==
  {Slice(b, off, len) : b \in bufs, off \in 0 .. MaxLen + 1, len \in 0 .. MaxLen + 1}

ValidViewsOf(bufs) == {s \in ViewsOf(bufs) : s.off + s.len <= Len(s.buf)}

SliceVals ==
  ValidViewsOf(SeqsUpTo(SliceAlphabet, MaxLen)) \cup {Bytes_as_slice(b) : b \in TestBytes}

\* Json { type_code, value: Vec<u8> } and JsonRef { type_code, value: &[u8] }.
JsonTypeCodes == {"Object", "Literal", "String"}

JsonAlphabet == {"0", "x"}

JsonVals == [type_code : JsonTypeCodes, value : SeqsUpTo(JsonAlphabet, MaxLen)]

JsonRefVals ==
  {[type_code |-> t, value |-> s] :
     t \in JsonTypeCodes, s \in ValidViewsOf(SeqsUpTo(JsonAlphabet, MaxLen))}

OwnedVals(T) ==
  CASE T = "Int" -> IntVals
    [] T = "Real" -> RealVals
    [] T = "Decimal" -> DecimalVals
    [] T = "Bytes" -> BytesVals
    [] T = "DateTime" -> DateTimeVals
    [] T = "Duration" -> DurationVals
    [] T = "Json" -> JsonVals

(***************************************************************************)
(* ScalarValue, ScalarValueRef, VectorValue and the chunked vectors.       *)
(***************************************************************************)
\* Payloads of scalars and of chunk rows: a few values of each type.
SmallVals(T) ==
  CASE T = "Int" -> {0, 1}
    [] T = "Real" -> {F64(FALSE, "zero"), F64(TRUE, "norm")}
    [] T = "Decimal" -> DecimalVals
    [] T = "Bytes" -> {<<>>, <<"1">>}
    [] T = "DateTime" -> DateTimeVals
    [] T = "Duration" -> DurationVals
    [] T = "Json" -> {[type_code |-> "Literal", value |-> <<"0">>],
                      [type_code |-> "String", value |-> <<>>]}

\* Json::as_ref (codec::mysql::json): the same type code, the value as a slice.
Json_as_ref(j) == [type_code |-> j.type_code, value |-> Bytes_as_slice(j.value)]

\* JsonRef::to_owned (codec::mysql::json): the same type code, the bytes copied.
JsonRef_to_owned(r) == [type_code |-> r.type_code, value |-> SliceContent(r.value)]

\* ScalarValue::$ty(Option<$ty>)
ScalarValue(T, x) == [tag |-> T, x |-> x]

ScalarValuesOf(T) == {ScalarValue(T, x) : x \in Option(SmallVals(T))}

\* ScalarValueRef::$ty(Option<&$ty>), ::Bytes(Option<BytesRef>), ::Json(Option<JsonRef>)
BorrowedVals(T) ==
  CASE T = "Bytes" -> {Bytes_as_slice(b) : b \in SmallVals(T)}
    [] T = "Json" -> {Json_as_ref(j) : j \in SmallVals(T)}
    [] OTHER -> RefsTo(SmallVals(T))

ScalarValueRefsOf(T) == {ScalarValue(T, x) : x \in Option(BorrowedVals(T))}

\* A chunked vector: its layout, its element type and its rows (None where
\* the bitmap bit is cleared).
ChunkedVec(layout, T, rows) == [layout |-> layout, elem |-> T, rows |-> rows]

\* impl_evaluable_ret! { $ty, $chunk }: EvaluableRet::ChunkedType
EvaluableRet_ChunkedType(T) ==
  CASE T = "Int" -> "ChunkedVecSized"
    [] T = "Real" -> "ChunkedVecSized"
    [] T = "Decimal" -> "ChunkedVecSized"
    [] T = "Bytes" -> "ChunkedVecBytes"
    [] T = "DateTime" -> "ChunkedVecSized"
    [] T = "Duration" -> "ChunkedVecSized"
    [] T = "Json" -> "ChunkedVecJson"

ChunksOf(T) ==
  {ChunkedVec(EvaluableRet_ChunkedType(T), T, rows) :
     rows \in SeqsUpTo(Option(SmallVals(T)), MaxRows)}

\* VectorValue::$ty(chunk)
VectorValue(T, chunk) == [tag |-> T, chunk |-> chunk]

VectorValuesOf(T) == {VectorValue(T, c) : c \in ChunksOf(T)}

\* VectorValue::from(chunk) (vector.rs): the variant of the chunk's type.
VectorValue_from(vec) ==
  CASE vec.layout = "ChunkedVecBytes" -> VectorValue("Bytes", vec)
    [] vec.layout = "ChunkedVecJson" -> VectorValue("Json", vec)
    [] vec.layout = "ChunkedVecSized" -> VectorValue(vec.elem, vec)

(***************************************************************************)
(* Evaluable (owned value): impl_evaluable_type! for five types.           *)
(***************************************************************************)
EvaluableImpls == {"Int", "Real", "Decimal", "DateTime", "Duration"}

Evaluable_EVAL_TYPE(T) == T

Option_as_ref(x, place) == IF x.some THEN Some(RefTo(place, x.v)) ELSE None

Evaluable_borrow_scalar_value(T, v) ==
  IF v.tag = T THEN Ret(Option_as_ref(v.x, "scalar")) ELSE Panic

Evaluable_borrow_scalar_value_ref(T, v) ==
  IF v.tag = T THEN Ret(v.x) ELSE Panic

\* Mutant: the chunk is handed out whatever the variant.
Evaluable_borrow_vector_value_Unchecked(T, v) == Ret(v.chunk)

Evaluable_borrow_vector_value(T, v) ==
  IF v.tag = T THEN Ret(v.chunk) ELSE Panic

(***************************************************************************)
(* EvaluableRet (owned return value): impl_evaluable_ret! for seven types. *)
(***************************************************************************)
\* Mutant: impl_evaluable_ret! { Json, ChunkedVecJson } is missing.
EvaluableRetImpls_NoJson == {"Int", "Real", "Decimal", "Bytes", "DateTime", "Duration"}

EvaluableRetImpls == {"Int", "Real", "Decimal", "Bytes", "DateTime", "Duration", "Json"}

EvaluableRet_EVAL_TYPE(T) == T

EvaluableRet_into_vector_value(T, vec) == VectorValue_from(vec)

(***************************************************************************)
(* EvaluableRef (borrowed value): &T for every T: Evaluable + EvaluableRet,*)
(* BytesRef and JsonRef.  An implementation is named by the form of the    *)
(* implementing type and the owned type it is about.                       *)
(***************************************************************************)
Impl(form, T) == [form |-> form, owned |-> T]

EvaluableRefImpls ==
  {Impl("&T", T) : T \in EvaluableImpls \cap EvaluableRetImpls}
    \cup {Impl("BytesRef", "Bytes"), Impl("JsonRef", "Json")}

EvaluableRef_EvaluableType(I) == I.owned

EvaluableRef_EVAL_TYPE(I) ==
  CASE I.form = "&T" -> Evaluable_EVAL_TYPE(I.owned)
    [] I.form = "BytesRef" -> "Bytes"
    [] I.form = "JsonRef" -> "Json"

EvaluableRef_ChunkedType(I) ==
  CASE I.form = "&T" -> "ChunkedVecSized"
    [] I.form = "BytesRef" -> "ChunkedVecBytes"
    [] I.form = "JsonRef" -> "ChunkedVecJson"

BytesRef_borrow_scalar_value(v) ==
  IF v.tag = "Bytes" THEN Ret(IF v.x.some THEN Some(Bytes_as_slice(v.x.v)) ELSE None) ELSE Panic

BytesRef_borrow_scalar_value_ref(v) ==
  IF v.tag = "Bytes" THEN Ret(v.x) ELSE Panic

BytesRef_borrow_vector_value(v) ==
  IF v.tag = "Bytes" THEN Ret(v.chunk) ELSE Panic

JsonRef_borrow_scalar_value(v) ==
  IF v.tag = "Json" THEN Ret(IF v.x.some THEN Some(Json_as_ref(v.x.v)) ELSE None) ELSE Panic

JsonRef_borrow_scalar_value_ref(v) ==
  IF v.tag = "Json" THEN Ret(v.x) ELSE Panic

\* Mutant: the match arm copied from the BytesRef implementation.
JsonRef_borrow_vector_value_BytesArm(v) ==
  IF v.tag = "Bytes" THEN Ret(v.chunk) ELSE Panic

JsonRef_borrow_vector_value(v) ==
  IF v.tag = "Json" THEN Ret(v.chunk) ELSE Panic

EvaluableRef_borrow_scalar_value(I, v) ==
  CASE I.form = "&T" -> Evaluable_borrow_scalar_value(I.owned, v)
    [] I.form = "BytesRef" -> BytesRef_borrow_scalar_value(v)
    [] I.form = "JsonRef" -> JsonRef_borrow_scalar_value(v)

EvaluableRef_borrow_scalar_value_ref(I, v) ==
  CASE I.form = "&T" -> Evaluable_borrow_scalar_value_ref(I.owned, v)
    [] I.form = "BytesRef" -> BytesRef_borrow_scalar_value_ref(v)
    [] I.form = "JsonRef" -> JsonRef_borrow_scalar_value_ref(v)

EvaluableRef_borrow_vector_value(I, v) ==
  CASE I.form = "&T" -> Evaluable_borrow_vector_value(I.owned, v)
    [] I.form = "BytesRef" -> BytesRef_borrow_vector_value(v)
    [] I.form = "JsonRef" -> JsonRef_borrow_vector_value(v)

\* to_owned_value: self.clone() / self.to_vec() / self.to_owned()
RefT_to_owned_value(self) == self.val

\* Mutant: the bytes are copied from the start of the buffer.
BytesRef_to_owned_value_FromStart(self) == SubSeq(self.buf, 1, self.len)

BytesRef_to_owned_value(self) == SliceContent(self)

JsonRef_to_owned_value(self) == JsonRef_to_owned(self)

EvaluableRef_to_owned_value(I, self) ==
  CASE I.form = "&T" -> RefT_to_owned_value(self)
    [] I.form = "BytesRef" -> BytesRef_to_owned_value(self)
    [] I.form = "JsonRef" -> JsonRef_to_owned_value(self)

\* from_owned_value: &value / value.as_slice() / value.as_ref().  A &T
\* argument is the reference the caller took of its owned value.
RefT_from_owned_value(value) == value

BytesRef_from_owned_value(value) == Bytes_as_slice(value.val)

JsonRef_from_owned_value(value) == Json_as_ref(value.val)

EvaluableRef_from_owned_value(I, value) ==
  CASE I.form = "&T" -> RefT_from_owned_value(value)
    [] I.form = "BytesRef" -> BytesRef_from_owned_value(value)
    [] I.form = "JsonRef" -> JsonRef_from_owned_value(value)

(***************************************************************************)
(* The type-list expansion: for a type of match_template_evaluable's list, *)
(* the implementations of a trait whose EVAL_TYPE is that type.            *)
(***************************************************************************)
Traits == {"Evaluable", "EvaluableRet", "EvaluableRef"}

ImplsWithTag(trait, tag) ==
  CASE trait = "Evaluable" ->
         {Impl("T", T) : T \in {U \in EvaluableImpls : Evaluable_EVAL_TYPE(U) = tag}}
    [] trait = "EvaluableRet" ->
         {Impl("T", T) : T \in {U \in EvaluableRetImpls : EvaluableRet_EVAL_TYPE(U) = tag}}
    [] trait = "EvaluableRef" ->
         {I \in EvaluableRefImpls : EvaluableRef_EVAL_TYPE(I) = tag}

(***************************************************************************)
(* The caller.                                                             *)
(***************************************************************************)
Idle == [fn |-> "idle", impl |-> Impl("-", "-")]

Init ==
  /\ ctx \in {DefaultContext, [DefaultContext EXCEPT !.overflow_as_warning = TRUE]}
  /\ op = Idle
  /\ arg = None
  /\ res = None
  /\ calls = <<>>

\* A call of as_mysql_bool with outcome o.
BoolCall(form, T, a, o) ==
  /\ o.ctx.warnings <= MaxWarnings
  /\ op' = [fn |-> "as_mysql_bool", impl |-> Impl(form, T)]
  /\ arg' = a
  /\ res' = o.res
  /\ calls' = o.calls
  /\ ctx' = o.ctx

\* A call of a function that takes no context.
PureCall(fn, I, a, r) ==
  /\ op' = [fn |-> fn, impl |-> I]
  /\ arg' = a
  /\ res' = r
  /\ calls' = <<fn>>
  /\ UNCHANGED ctx

CallIntAsBool ==
  /\ op = Idle
  /\ \E v \in IntVals : BoolCall("T", "Int", v, Int_as_mysql_bool(v, ctx))

CallRealAsBool ==
  /\ op = Idle
  /\ \E v \in RealVals : BoolCall("T", "Real", v, Real_as_mysql_bool(v, ctx))

CallBytesAsBool ==
  /\ op = Idle
  /\ \E v \in BytesVals : BoolCall("T", "Bytes", v, Bytes_as_mysql_bool(v, ctx))

CallBytesRefAsBool ==
  /\ op = Idle
  /\ \E v \in SliceVals : BoolCall("BytesRef", "Bytes", v, BytesRef_as_mysql_bool(v, ctx))

CallJsonRefAsBool ==
  /\ op = Idle
  /\ \E v \in JsonRefVals : BoolCall("JsonRef", "Json", v, JsonRef_as_mysql_bool(v, ctx))

CallOptionRefAsBool ==
  /\ op = Idle
  /\ \E T \in AsMySQLBoolOwned :
       \E v \in Option(RefsTo(OwnedVals(T))) :
         BoolCall("Option<&T>", T, v, OptionRef_as_mysql_bool(T, v, ctx))

CallOptionBytesRefAsBool ==
  /\ op = Idle
  /\ \E v \in Option(SliceVals) :
       BoolCall("Option<BytesRef>", "Bytes", v, OptionBytesRef_as_mysql_bool(v, ctx))

CallOptionJsonRefAsBool ==
  /\ op = Idle
  /\ \E v \in Option(JsonRefVals) :
       BoolCall("Option<JsonRef>", "Json", v, OptionJsonRef_as_mysql_bool(v, ctx))

CallEvaluableBorrowScalarValue ==
  /\ op = Idle
  /\ \E T \in EvaluableImpls, U \in EvalTypes : \E v \in ScalarValuesOf(U) :
       PureCall("Evaluable::borrow_scalar_value", Impl("T", T), v,
                Evaluable_borrow_scalar_value(T, v))

CallEvaluableBorrowScalarValueRef ==
  /\ op = Idle
  /\ \E T \in EvaluableImpls, U \in EvalTypes : \E v \in ScalarValueRefsOf(U) :
       PureCall("Evaluable::borrow_scalar_value_ref", Impl("T", T), v,
                Evaluable_borrow_scalar_value_ref(T, v))

CallEvaluableBorrowVectorValue ==
  /\ op = Idle
  /\ \E T \in EvaluableImpls, U \in EvalTypes : \E v \in VectorValuesOf(U) :
       PureCall("Evaluable::borrow_vector_value", Impl("T", T), v,
                Evaluable_borrow_vector_value(T, v))

CallEvaluableRefBorrowScalarValue ==
  /\ op = Idle
  /\ \E I \in EvaluableRefImpls, U \in EvalTypes : \E v \in ScalarValuesOf(U) :
       PureCall("EvaluableRef::borrow_scalar_value", I, v,
                EvaluableRef_borrow_scalar_value(I, v))

CallEvaluableRefBorrowScalarValueRef ==
  /\ op = Idle
  /\ \E I \in EvaluableRefImpls, U \in EvalTypes : \E v \in ScalarValueRefsOf(U) :
       PureCall("EvaluableRef::borrow_scalar_value_ref", I, v,
                EvaluableRef_borrow_scalar_value_ref(I, v))

CallEvaluableRefBorrowVectorValue ==
  /\ op = Idle
  /\ \E I \in EvaluableRefImpls, U \in EvalTypes : \E v \in VectorValuesOf(U) :
       PureCall("EvaluableRef::borrow_vector_value", I, v,
                EvaluableRef_borrow_vector_value(I, v))

\* A freshly built chunk of T's layout is wrapped into the vector union ...
CallIntoVectorValue ==
  /\ op = Idle
  /\ \E T \in EvaluableRetImpls : \E c \in ChunksOf(T) :
       PureCall("EvaluableRet::into_vector_value", Impl("T", T), c,
                EvaluableRet_into_vector_value(T, c))

\* ... and a consumer borrows it with the borrowed-value capability whose
\* EvaluableType is T.
BorrowIntoVectorValue ==
  /\ op.fn = "EvaluableRet::into_vector_value"
  /\ \E I \in EvaluableRefImpls :
       /\ EvaluableRef_EvaluableType(I) = op.impl.owned
       /\ PureCall("borrow_vector_value(into_vector_value)", I, arg,
                   EvaluableRef_borrow_vector_value(I, res))

\* The inputs of to_owned_value and from_owned_value.
RefVals(I) ==
  CASE I.form = "&T" -> RefsTo(SmallVals(I.owned))
    [] I.form = "BytesRef" -> SliceVals
    [] I.form = "JsonRef" -> JsonRefVals

RoundTripOwnedVals(I) ==
  CASE I.form = "&T" -> SmallVals(I.owned)
    [] I.form = "BytesRef" -> BytesVals
    [] I.form = "JsonRef" -> JsonVals

CallToOwnedValue ==
  /\ op = Idle
  /\ \E I \in EvaluableRefImpls : \E r \in RefVals(I) :
       PureCall("EvaluableRef::to_owned_value", I, r, EvaluableRef_to_owned_value(I, r))

\* from_owned_value(&owned) of the value to_owned_value returned.
FromOwnedOfToOwned ==
  /\ op.fn = "EvaluableRef::to_owned_value"
  /\ PureCall("from_owned_value(to_owned_value)", op.impl, arg,
              EvaluableRef_from_owned_value(op.impl, RefTo("owned", res)))

CallFromOwnedValue ==
  /\ op = Idle
  /\ \E I \in EvaluableRefImpls : \E o \in RoundTripOwnedVals(I) :
       PureCall("EvaluableRef::from_owned_value", I, o,
                EvaluableRef_from_owned_value(I, RefTo("owned", o)))

\* to_owned_value of the borrowed value from_owned_value returned.
ToOwnedOfFromOwned ==
  /\ op.fn = "EvaluableRef::from_owned_value"
  /\ PureCall("to_owned_value(from_owned_value)", op.impl, arg,
              EvaluableRef_to_owned_value(op.impl, res))

\* One branch of the type-list expansion asks for a trait's implementation.
ResolveImpl ==
  /\ op = Idle
  /\ \E trait \in Traits, tag \in EvalTypes :
       PureCall("resolve", Impl(trait, tag), tag, ImplsWithTag(trait, tag))

\* The caller takes the result and goes on; the context stays with it.
Return ==
  /\ op # Idle
  /\ op' = Idle
  /\ arg' = None
  /\ res' = None
  /\ calls' = <<>>
  /\ UNCHANGED ctx

Next ==
  \/ CallIntAsBool
  \/ CallRealAsBool
  \/ CallBytesAsBool
  \/ CallBytesRefAsBool
  \/ CallJsonRefAsBool
  \/ CallOptionRefAsBool
  \/ CallOptionBytesRefAsBool
  \/ CallOptionJsonRefAsBool
  \/ CallEvaluableBorrowScalarValue
  \/ CallEvaluableBorrowScalarValueRef
  \/ CallEvaluableBorrowVectorValue
  \/ CallEvaluableRefBorrowScalarValue
  \/ CallEvaluableRefBorrowScalarValueRef
  \/ CallEvaluableRefBorrowVectorValue
  \/ CallIntoVectorValue
  \/ BorrowIntoVectorValue
  \/ CallToOwnedValue
  \/ FromOwnedOfToOwned
  \/ CallFromOwnedValue
  \/ ToOwnedOfFromOwned
  \/ ResolveImpl
  \/ Return

Spec == Init /\ [][Next]_vars

(***************************************************************************)
(* Properties.                                                             *)
(***************************************************************************)
\* as_mysql_bool of the implementation named I.
AsMySQLBool(I, v, c) ==
  CASE I.form = "T" -> Owned_as_mysql_bool(I.owned, v, c)
    [] I.form = "BytesRef" -> BytesRef_as_mysql_bool(v, c)
    [] I.form = "JsonRef" -> JsonRef_as_mysql_bool(v, c)
    [] I.form = "Option<&T>" -> OptionRef_as_mysql_bool(I.owned, v, c)
    [] I.form = "Option<BytesRef>" -> OptionBytesRef_as_mysql_bool(v, c)
    [] I.form = "Option<JsonRef>" -> OptionJsonRef_as_mysql_bool(v, c)

\* PartialEq of borrowed values compares what they refer to.
Deref(I, r) ==
  CASE I.form = "&T" -> r.val
    [] I.form = "BytesRef" -> SliceContent(r)
    [] I.form = "JsonRef" -> [type_code |-> r.type_code, value |-> SliceContent(r.value)]

OptionForms == {"Option<&T>", "Option<BytesRef>", "Option<JsonRef>"}

BorrowFns ==
  { "Evaluable::borrow_scalar_value", "Evaluable::borrow_scalar_value_ref",
    "Evaluable::borrow_vector_value", "EvaluableRef::borrow_scalar_value",
    "EvaluableRef::borrow_scalar_value_ref", "EvaluableRef::borrow_vector_value" }

Entered(fn) == \E i \in 1 .. Len(calls) : calls[i] = fn

\* The call is as_mysql_bool of a byte string (owned or borrowed).
IsBytesBoolCall(o) ==
  /\ o.fn = "as_mysql_bool"
  /\ \/ o.impl.form = "T" /\ o.impl.owned = "Bytes"
     \/ o.impl.form = "BytesRef"

BytesOf(o, a) == IF o.impl.form = "BytesRef" THEN SliceContent(a) ELSE a

\* C1: borrow_scalar_value, borrow_scalar_value_ref and borrow_vector_value of
\* every implementation end in the panic, and return nothing, when the
\* union's variant differs from the requested type.
C1_MismatchPanics ==
  (op.fn \in BorrowFns /\ arg.tag # op.impl.owned) => res.kind = "panic"

\* An Int view of a Real column was requested, and the call panicked.
C1_Witness ==
  /\ op.fn = "Evaluable::borrow_vector_value"
  /\ op.impl.owned = "Int"
  /\ arg.tag = "Real"
  /\ Len(arg.chunk.rows) > 0
  /\ res.kind = "panic"

\* C2: as_mysql_bool of a non-empty byte string enters the bytes-to-float
\* conversion; it returns the conversion's error when there is one, and
\* otherwise Ok(f != 0.0) for the float f converted; it never panics.
C2_Step ==
  (op = Idle /\ IsBytesBoolCall(op') /\ BytesOf(op', arg') # <<>>) =>
    LET cv == ConvertBytesToF64(BytesOf(op', arg'), ctx)
    IN  /\ "ConvertTo::<f64>::convert" = calls'[Len(calls')]
        /\ cv.r.kind = "Err" => (res'.kind = "Err" /\ res'.e = cv.r.e)
        /\ cv.r.kind = "Ok" => (res'.kind = "Ok" /\ (res'.b <=> cv.r.f.cls # "zero"))

C2_NonEmptyBytesDelegate == [][C2_Step]_vars

\* "1.11.00" was converted and the error came back.
C2_Witness ==
  /\ IsBytesBoolCall(op)
  /\ op.impl.form = "T"
  /\ arg = <<"1", ".", "1", "1", ".", "0", "0">>
  /\ res.kind = "Err"
  /\ Entered("ConvertTo::<f64>::convert")

\* C3: as_mysql_bool of an absent optional value is Ok(false) and enters no
\* other implementation; of Some(v) it is what as_mysql_bool of v returns.
C3_Step ==
  (op = Idle /\ op'.fn = "as_mysql_bool" /\ op'.impl.form \in OptionForms) =>
    IF ~arg'.some
    THEN res' = Ok(FALSE) /\ Len(calls') = 1
    ELSE res' = (CASE op'.impl.form = "Option<&T>" ->
                        Owned_as_mysql_bool(op'.impl.owned, arg'.v.val, ctx)
                   [] op'.impl.form = "Option<BytesRef>" ->
                        BytesRef_as_mysql_bool(arg'.v, ctx)
                   [] op'.impl.form = "Option<JsonRef>" ->
                        JsonRef_as_mysql_bool(arg'.v, ctx)).res

C3_OptionAsBool == [][C3_Step]_vars

\* An absent byte string was asked for its truth value.
C3_Witness ==
  /\ op.fn = "as_mysql_bool"
  /\ op.impl.form = "Option<BytesRef>"
  /\ ~arg.some
  /\ res = Ok(FALSE)

\* C4: as_mysql_bool of a JSON value, and of Some(JSON value), is Ok(false)
\* for every payload and every context.
C4_JsonAlwaysFalse ==
  /\ (op.fn = "as_mysql_bool" /\ op.impl.form = "JsonRef") => res = Ok(FALSE)
  /\ (op.fn = "as_mysql_bool" /\ op.impl.form = "Option<JsonRef>" /\ arg.some) =>
       res = Ok(FALSE)

\* A non-empty object under the lenient policy was asked.
C4_Witness ==
  /\ op.fn = "as_mysql_bool"
  /\ op.impl.form = "Option<JsonRef>"
  /\ arg.some
  /\ arg.v.type_code = "Object"
  /\ arg.v.value.len > 0
  /\ ctx.overflow_as_warning
  /\ res = Ok(FALSE)

\* C5: as_mysql_bool of an integer or a real is Ok(false) exactly when the
\* value is zero, Ok(true) otherwise, and never an error.
C5_NumbersFalseIffZero ==
  /\ (op.fn = "as_mysql_bool" /\ op.impl = Impl("T", "Int")) =>
       (res.kind = "Ok" /\ (res.b <=> arg # 0))
  /\ (op.fn = "as_mysql_bool" /\ op.impl = Impl("T", "Real")) =>
       (res.kind = "Ok" /\ (res.b <=> arg.cls # "zero"))

\* Negative infinity was asked and is true.
C5_Witness ==
  /\ op.fn = "as_mysql_bool"
  /\ op.impl = Impl("T", "Real")
  /\ arg = F64(TRUE, "inf")
  /\ res = Ok(TRUE)

\* C6: as_mysql_bool of the empty byte string is Ok(false) and the
\* bytes-to-float conversion is not entered.
C6_EmptyBytesFalse ==
  (IsBytesBoolCall(op) /\ BytesOf(op, arg) = <<>>) =>
    (res = Ok(FALSE) /\ ~Entered("ConvertTo::<f64>::convert"))

\* An empty view inside a non-empty buffer was asked; converting it would
\* have been a parse failure.
C6_Witness ==
  /\ IsBytesBoolCall(op)
  /\ op.impl.form = "BytesRef"
  /\ arg.len = 0
  /\ arg.off > 0
  /\ ConvertBytesToF64(SliceContent(arg), ctx).r.kind = "Err"
  /\ res = Ok(FALSE)

\* C7: from_owned_value(&to_owned_value(r)) refers to a value equal to what r
\* refers to, and to_owned_value(from_owned_value(&o)) equals o.
C7_RoundTrip ==
  /\ op.fn = "from_owned_value(to_owned_value)" =>
       Deref(op.impl, res) = Deref(op.impl, arg)
  /\ op.fn = "to_owned_value(from_owned_value)" => res = arg

\* A view in the middle of a buffer went to a vector and back: another view,
\* of equal bytes.
C7_Witness ==
  /\ op.fn = "from_owned_value(to_owned_value)"
  /\ op.impl.form = "BytesRef"
  /\ arg.off > 0
  /\ arg.len > 0
  /\ res # arg

C9_IntoVectorThenBorrow ==
  /\ op.fn = "EvaluableRet::into_vector_value" =>
       (res.tag = EvaluableRet_EVAL_TYPE(op.impl.owned) /\ res.chunk = arg)
  /\ op.fn = "borrow_vector_value(into_vector_value)" =>
       /\ res.kind = "ret"
       /\ res.v = arg
       /\ res.v.layout = EvaluableRef_ChunkedType(op.impl)
       /\ EvaluableRef_EVAL_TYPE(op.impl) =
            EvaluableRet_EVAL_TYPE(EvaluableRef_EvaluableType(op.impl))

\* A JSON chunk with a row was wrapped and borrowed back as JsonRef.
C9_Witness ==
  /\ op.fn = "borrow_vector_value(into_vector_value)"
  /\ op.impl.form = "JsonRef"
  /\ Len(arg.rows) > 0
  /\ res.kind = "ret"

\* The calls C10 is about: an integer, a real, a JSON value, an absent value
\* of any type, the empty byte string.
ContextFree(o, a) ==
  /\ o.fn = "as_mysql_bool"
  /\ \/ o.impl.form = "T" /\ o.impl.owned \in {"Int", "Real"}
     \/ o.impl.form = "JsonRef"
     \/ o.impl.form \in OptionForms /\ ~a.some
     \/ IsBytesBoolCall(o) /\ BytesOf(o, a) = <<>>

\* C10: such a call leaves the context as it was, and returns what the same
\* call returns under every other context.
C10_Step == (op = Idle /\ ContextFree(op', arg')) => ctx' = ctx

C10_SameUnderEveryContext ==
  ContextFree(op, arg) =>
    \A c \in Contexts :
      /\ AsMySQLBool(op.impl, arg, c).res = res
      /\ AsMySQLBool(op.impl, arg, c).ctx = c

C10_PureTruthiness == [][C10_Step]_vars /\ []C10_SameUnderEveryContext

\* An absent integer was asked after the context had taken a warning.
C10_Witness ==
  /\ ContextFree(op, arg)
  /\ op.impl = Impl("Option<&T>", "Int")
  /\ ctx.warnings > 0
  /\ res = Ok(FALSE)

====
